---- MODULE Spec2Model ----
(***************************************************************************)
(* A model of the Bookstore API (src/main.py, src/auth.py, src/schemas.py): *)
(* the in-memory user directory, the signed bearer tokens, the book store   *)
(* behind the SQLAlchemy session, the shared asyncio event queue and the    *)
(* SSE subscribers that drain it.  One action per route handler; a handler  *)
(* that depends on get_current_user runs that dependency as its first step. *)
(***************************************************************************)
EXTENDS Integers, Sequences, FiniteSets, TLC

VARIABLES
    users,        \* main.py:45  dict username -> password (plain text)
    event_queue,  \* main.py:46  asyncio.Queue(): sequence of [n, text]
    books,        \* the Book table: function id -> fields
    clock,        \* the wall clock in whole seconds (what timegm() reads)
    issued,       \* tokens that clients hold (returned by /token)
    subs,         \* per SSE connection: position in event_generator
    request,      \* the request handled by the last step
    response,     \* the response that step produced
    published,    \* history: number of messages put on event_queue so far
    received,     \* history: per SSE connection, the messages it was handed
    okRegs,       \* history: successful registrations per username, this process
    stored        \* history: per id, the last successfully written fields

vars == <<users, event_queue, books, clock, issued, subs, request, response,
          published, received, okRegs, stored>>

----------------------------------------------------------------------------
(* Bounds of the model *)

MaxClock == 2700
ClockStep == 900
MaxTokens == 1
MaxBookId == 2
MaxPublished == 3

(* Inputs *)

Usernames == {"", "alice"}
Passwords == {"", "pw1", "pw2"}

----------------------------------------------------------------------------
(* src/auth.py *)

ACCESS_TOKEN_EXPIRE_MINUTES == 30

\* A compact JWT: the claims and whether the HMAC was made with SECRET_KEY.
NoToken == [sub |-> "<no token>", exp |-> -1, sig |-> "absent"]

\* jose jwt.encode: a datetime "exp" becomes whole seconds since the epoch.
jwt_encode(data) == [sub |-> data.sub, exp |-> data.exp, sig |-> "SECRET_KEY"]

create_access_token(sub, now) ==
    jwt_encode([sub |-> sub, exp |-> now + ACCESS_TOKEN_EXPIRE_MINUTES * 60])

\* jose jwt.decode: signature first, then the exp claim (expired when exp < now).
jwt_decode(token, now) ==
    IF token.sig # "SECRET_KEY" THEN [error |-> "JWTError", sub |-> ""]
    ELSE IF token.exp < now THEN [error |-> "ExpiredSignatureError", sub |-> ""]
    ELSE [error |-> "", sub |-> token.sub]

----------------------------------------------------------------------------
(* Requests and responses *)

NoId == -100
NoFields == [title |-> "", author |-> "", published_date |-> "", summary |-> "", genre |-> ""]

NoRequest == [op |-> "", username |-> "", password |-> "", token |-> NoToken,
              id |-> NoId, page |-> 1, size |-> 10, fields |-> NoFields, at |-> 0]

NoResponse == [status |-> 0, detail |-> "", www_authenticate |-> "", msg |-> "",
               access_token |-> NoToken, token_type |-> "", items |-> <<>>,
               total |-> -1, page |-> -1, size |-> -1]

HTTPException(status_code, detail) ==
    [NoResponse EXCEPT !.status = status_code, !.detail = detail]

----------------------------------------------------------------------------
(* src/main.py: authorization of protected routes *)

\* Faulty variant: the claims are read without verifying the signature.
get_current_user_unverified(token, now) ==
    IF token = NoToken
    THEN [ok |-> FALSE, username |-> "",
          response |-> [HTTPException(401, "Not authenticated")
                          EXCEPT !.www_authenticate = "Bearer"]]
    ELSE IF token.exp < now
    THEN [ok |-> FALSE, username |-> "",
          response |-> HTTPException(401, "Token has expired")]
    ELSE IF token.sub = ""
    THEN [ok |-> FALSE, username |-> "",
          response |-> HTTPException(401, "Invalid token or user does not exist")]
    ELSE [ok |-> TRUE, username |-> token.sub, response |-> NoResponse]

\* oauth2_scheme (auth.py:12) answers 401 itself when no bearer token is sent.
\* Result: [ok, username, response].
get_current_user(token, now) ==
    IF token = NoToken
    THEN [ok |-> FALSE, username |-> "",
          response |-> [HTTPException(401, "Not authenticated")
                          EXCEPT !.www_authenticate = "Bearer"]]
    ELSE LET payload == jwt_decode(token, now) IN
         IF payload.error = "ExpiredSignatureError"
         THEN [ok |-> FALSE, username |-> "",
               response |-> HTTPException(401, "Token has expired")]
         ELSE IF payload.error = "JWTError"
         THEN [ok |-> FALSE, username |-> "",
               response |-> HTTPException(401, "Invalid token")]
         ELSE IF payload.sub = ""
         THEN [ok |-> FALSE, username |-> "",
               response |-> HTTPException(401, "Invalid token or user does not exist")]
         ELSE [ok |-> TRUE, username |-> payload.sub, response |-> NoResponse]

\* The tokens a client can present: none, one it was issued, or one it was
\* issued with the signature no longer matching the claims.
Presentable ==
    {NoToken} \cup issued \cup {[t EXCEPT !.sig = "other"] : t \in issued}

----------------------------------------------------------------------------
(* The Book table behind the SQLAlchemy session *)

Dune == [title |-> "Dune", author |-> "Herbert", published_date |-> "1965-08-01",
         summary |-> "Arrakis", genre |-> "SciFi"]
Emma == [title |-> "Emma", author |-> "Austen", published_date |-> "1815-12-23",
         summary |-> "Highbury", genre |-> "Novel"]
Payloads == {Dune, Emma}

BookIds == 1..MaxBookId

\* The ids a flushed INSERT may assign: positive and not in use.
insert_ids == {i \in BookIds : i \notin DOMAIN books}

\* BookSchema.from_orm / response_model=BookSchema: the row with its id.
BookSchema(id, row) ==
    [id |-> id, title |-> row.title, author |-> row.author,
     published_date |-> row.published_date, summary |-> row.summary,
     genre |-> row.genre]

\* db.query(Book) in rowid order.
RECURSIVE query_all(_)
query_all(ids) ==
    IF ids = {} THEN <<>>
    ELSE LET i == CHOOSE x \in ids : \A y \in ids : x <= y
         IN  <<BookSchema(i, books[i])>> \o query_all(ids \ {i})

Min(a, b) == IF a <= b THEN a ELSE b

\* fastapi_pagination paginate(): one slice of the query and the row count.
paginate(rows, page, size) ==
    [NoResponse EXCEPT !.status = 200,
                       !.items = SubSeq(rows, Min((page - 1) * size, Len(rows)) + 1,
                                        Min(page * size, Len(rows))),
                       !.total = Len(rows), !.page = page, !.size = size]

\* Faulty variant: the title is not interpolated.
notice_without_title(prefix, title) == prefix

\* The f-strings of the notifications: f"New book added: {new_book.title}" etc.
notice(prefix, title) == prefix \o title

\* Faulty variant: the message is put at the head of the queue.
put_at_head(text) ==
    /\ published < MaxPublished
    /\ event_queue' = <<[n |-> published + 1, text |-> text]>> \o event_queue
    /\ published' = published + 1

\* Faulty variant: asyncio.Queue(maxsize=1), so put waits while one message is queued.
put_bounded(text) ==
    /\ published < MaxPublished
    /\ Len(event_queue) < 1
    /\ event_queue' = Append(event_queue, [n |-> published + 1, text |-> text])
    /\ published' = published + 1

\* await event_queue.put(text) on the unbounded queue: appended at once.
put(text) ==
    /\ published < MaxPublished
    /\ event_queue' = Append(event_queue, [n |-> published + 1, text |-> text])
    /\ published' = published + 1

----------------------------------------------------------------------------
(* The state after the module is loaded *)

Subscribers == {"s1", "s2"}
NoEvent == [n |-> 0, text |-> ""]

Init ==
    /\ users = <<>>
    /\ event_queue = <<>>
    /\ books = <<>>
    /\ clock = 0
    /\ issued = {}
    /\ subs = [s \in Subscribers |-> [pc |-> "closed", event |-> NoEvent]]
    /\ request = NoRequest
    /\ response = NoResponse
    /\ published = 0
    /\ received = [s \in Subscribers |-> <<>>]
    /\ okRegs = [u \in Usernames |-> 0]
    /\ stored = <<>>

----------------------------------------------------------------------------
(* POST /register *)

\* Faulty variant: the membership test is dropped, so a later register overwrites.
register_response_overwrite(username) ==
    [NoResponse EXCEPT !.status = 200, !.msg = "User registered successfully"]

register_response(username) ==
    IF username \in DOMAIN users
    THEN HTTPException(400, "Username already registered")
    ELSE [NoResponse EXCEPT !.status = 200, !.msg = "User registered successfully"]

register(username, password) ==
    /\ request' = [NoRequest EXCEPT !.op = "register", !.username = username,
                                    !.password = password, !.at = clock]
    /\ response' = register_response(username)
    /\ IF response'.status = 200
       THEN /\ users' = [u \in DOMAIN users \cup {username} |->
                            IF u = username THEN password ELSE users[u]]
            /\ okRegs' = [okRegs EXCEPT ![username] = @ + 1]
       ELSE UNCHANGED <<users, okRegs>>
    /\ UNCHANGED <<event_queue, books, clock, issued, subs, published, received, stored>>

(* POST /token *)

\* users.get(username): None for an unknown name; `not user_password` is also
\* true of the empty string.
login_rejects(username, password) ==
    \/ username \notin DOMAIN users
    \/ users[username] = ""
    \/ password # users[username]

\* Faulty variant: an unknown username gets its own answer.
login_response_leaky(username, password, now) ==
    IF username \notin DOMAIN users
    THEN HTTPException(404, "User not found")
    ELSE IF login_rejects(username, password)
    THEN [HTTPException(401, "Incorrect username or password")
            EXCEPT !.www_authenticate = "Bearer"]
    ELSE [NoResponse EXCEPT !.status = 200,
                            !.access_token = create_access_token(username, now),
                            !.token_type = "bearer"]

login_response(username, password, now) ==
    IF login_rejects(username, password)
    THEN [HTTPException(401, "Incorrect username or password")
            EXCEPT !.www_authenticate = "Bearer"]
    ELSE [NoResponse EXCEPT !.status = 200,
                            !.access_token = create_access_token(username, now),
                            !.token_type = "bearer"]

login(username, password) ==
    /\ request' = [NoRequest EXCEPT !.op = "login", !.username = username,
                                    !.password = password, !.at = clock]
    /\ response' = login_response(username, password, clock)
    /\ IF response'.status = 200
       THEN /\ Cardinality(issued \cup {response'.access_token}) <= MaxTokens
            /\ issued' = issued \cup {response'.access_token}
       ELSE UNCHANGED issued
    /\ UNCHANGED <<users, event_queue, books, clock, subs, published, received,
                   okRegs, stored>>

----------------------------------------------------------------------------
(* The /books routes; each runs get_current_user first *)

Denied(op, token, id, fields, page, size) ==
    /\ request' = [NoRequest EXCEPT !.op = op, !.token = token, !.id = id,
                                    !.fields = fields, !.page = page, !.size = size,
                                    !.at = clock]
    /\ response' = get_current_user(token, clock).response
    /\ UNCHANGED <<users, event_queue, books, clock, issued, subs, published,
                   received, okRegs, stored>>

BookNotFound == HTTPException(404, "Book not found")

(* POST /books/ *)
add_book(token, fields) ==
    IF ~get_current_user(token, clock).ok
    THEN Denied("add_book", token, NoId, fields, 1, 10)
    ELSE \E id \in insert_ids :
         /\ request' = [NoRequest EXCEPT !.op = "add_book", !.token = token,
                                         !.fields = fields, !.at = clock]
         /\ books' = [i \in DOMAIN books \cup {id} |->
                         IF i = id THEN fields ELSE books[i]]
         /\ stored' = [i \in DOMAIN stored \cup {id} |->
                         IF i = id THEN fields ELSE stored[i]]
         /\ put(notice("New book added: ", books'[id].title))
         /\ response' = [NoResponse EXCEPT !.status = 200,
                                           !.items = <<BookSchema(id, books'[id])>>]
         /\ UNCHANGED <<users, clock, issued, subs, received, okRegs>>

(* GET /books/ *)

\* `if id:` (main.py:113): taken for a supplied id other than 0.
id_given(id) == id # NoId /\ id # 0

get_books(token, id, page, size) ==
    IF ~get_current_user(token, clock).ok
    THEN Denied("get_books", token, id, NoFields, page, size)
    ELSE /\ request' = [NoRequest EXCEPT !.op = "get_books", !.token = token,
                                         !.id = id, !.page = page, !.size = size,
                                         !.at = clock]
         /\ IF id_given(id)
            THEN IF id \notin DOMAIN books
                 THEN /\ response' = BookNotFound
                      /\ UNCHANGED <<event_queue, published>>
                 ELSE /\ put(notice("Book found: ", BookSchema(id, books[id]).title))
                      /\ response' = [NoResponse EXCEPT
                                        !.status = 200,
                                        !.items = <<BookSchema(id, books[id])>>,
                                        !.total = 1, !.page = 1, !.size = 1]
            ELSE /\ response' = paginate(query_all(DOMAIN books), page, size)
                 /\ UNCHANGED <<event_queue, published>>
         /\ UNCHANGED <<users, books, clock, issued, subs, received, okRegs, stored>>

(* PUT /books/{id} *)

\* Faulty variant: the update is written as delete and re-insert, so the row
\* gets a new id.
update_book_reinsert(token, id, fields) ==
    IF ~get_current_user(token, clock).ok
    THEN Denied("update_book", token, id, fields, 1, 10)
    ELSE /\ request' = [NoRequest EXCEPT !.op = "update_book", !.token = token,
                                         !.id = id, !.fields = fields, !.at = clock]
         /\ IF id \notin DOMAIN books
            THEN /\ response' = BookNotFound
                 /\ UNCHANGED <<books, stored, event_queue, published>>
            ELSE \E new \in insert_ids :
                 /\ books' = [i \in (DOMAIN books \ {id}) \cup {new} |->
                                 IF i = new THEN fields ELSE books[i]]
                 /\ stored' = [i \in (DOMAIN stored \ {id}) \cup {new} |->
                                 IF i = new THEN fields ELSE stored[i]]
                 /\ put(notice("Book updated: ", books'[new].title))
                 /\ response' = [NoResponse EXCEPT
                                   !.status = 200,
                                   !.items = <<BookSchema(new, books'[new])>>]
         /\ UNCHANGED <<users, clock, issued, subs, received, okRegs>>

update_book(token, id, fields) ==
    IF ~get_current_user(token, clock).ok
    THEN Denied("update_book", token, id, fields, 1, 10)
    ELSE /\ request' = [NoRequest EXCEPT !.op = "update_book", !.token = token,
                                         !.id = id, !.fields = fields, !.at = clock]
         /\ IF id \notin DOMAIN books
            THEN /\ response' = BookNotFound
                 /\ UNCHANGED <<books, stored, event_queue, published>>
            ELSE /\ books' = [books EXCEPT ![id] =
                                [title |-> fields.title, author |-> fields.author,
                                 published_date |-> fields.published_date,
                                 summary |-> fields.summary, genre |-> fields.genre]]
                 /\ stored' = [stored EXCEPT ![id] = fields]
                 /\ put(notice("Book updated: ", books'[id].title))
                 /\ response' = [NoResponse EXCEPT
                                   !.status = 200,
                                   !.items = <<BookSchema(id, books'[id])>>]
         /\ UNCHANGED <<users, clock, issued, subs, received, okRegs>>

(* DELETE /books/{id} *)

\* Faulty variant: db.commit() is missing, so the notification goes out for a
\* delete that the closing session rolls back.
delete_book_uncommitted(token, id) ==
    IF ~get_current_user(token, clock).ok
    THEN Denied("delete_book", token, id, NoFields, 1, 10)
    ELSE /\ request' = [NoRequest EXCEPT !.op = "delete_book", !.token = token,
                                         !.id = id, !.at = clock]
         /\ IF id \notin DOMAIN books
            THEN /\ response' = BookNotFound
                 /\ UNCHANGED <<books, stored, event_queue, published>>
            ELSE /\ UNCHANGED <<books, stored>>
                 /\ put(notice("Book deleted: ", books[id].title))
                 /\ response' = [NoResponse EXCEPT
                                   !.status = 200,
                                   !.msg = "Book deleted successfully"]
         /\ UNCHANGED <<users, clock, issued, subs, received, okRegs>>

delete_book(token, id) ==
    IF ~get_current_user(token, clock).ok
    THEN Denied("delete_book", token, id, NoFields, 1, 10)
    ELSE /\ request' = [NoRequest EXCEPT !.op = "delete_book", !.token = token,
                                         !.id = id, !.at = clock]
         /\ IF id \notin DOMAIN books
            THEN /\ response' = BookNotFound
                 /\ UNCHANGED <<books, stored, event_queue, published>>
            ELSE /\ books' = [i \in DOMAIN books \ {id} |-> books[i]]
                 /\ stored' = [i \in DOMAIN stored \ {id} |-> stored[i]]
                 /\ put(notice("Book deleted: ", books[id].title))
                 /\ response' = [NoResponse EXCEPT
                                   !.status = 200,
                                   !.msg = "Book deleted successfully"]
         /\ UNCHANGED <<users, clock, issued, subs, received, okRegs>>

----------------------------------------------------------------------------
(* GET /events *)

\* The handler: authorize, then hand event_generator() to EventSourceResponse.
sse_get_events(s, token) ==
    /\ subs[s].pc = "closed"
    /\ IF ~get_current_user(token, clock).ok
       THEN Denied("sse_get_events", token, NoId, NoFields, 1, 10)
       ELSE /\ request' = [NoRequest EXCEPT !.op = "sse_get_events",
                                            !.token = token, !.at = clock]
            /\ response' = [NoResponse EXCEPT !.status = 200]
            /\ subs' = [subs EXCEPT ![s] = [pc |-> "get", event |-> NoEvent]]
            /\ UNCHANGED <<users, event_queue, books, clock, issued, published,
                           received, okRegs, stored>>

\* Faulty variant: the message is read but stays in the queue.
get_leaves_peek(q) == q

\* What `await event_queue.get()` leaves in the queue.
get_leaves(q) == Tail(q)

\* event = await event_queue.get(): suspended while the queue is empty.
event_generator_get(s) ==
    /\ subs[s].pc = "get"
    /\ event_queue # <<>>
    /\ subs' = [subs EXCEPT ![s] = [pc |-> "yield", event |-> Head(event_queue)]]
    /\ event_queue' = get_leaves(event_queue)
    /\ UNCHANGED <<users, books, clock, issued, request, response, published,
                   received, okRegs, stored>>

\* yield f"{event}": the message goes out on this connection.
event_generator_yield(s) ==
    /\ subs[s].pc = "yield"
    /\ received' = [received EXCEPT ![s] = Append(@, subs[s].event)]
    /\ subs' = [subs EXCEPT ![s] = [pc |-> "get", event |-> NoEvent]]
    /\ UNCHANGED <<users, event_queue, books, clock, issued, request, response,
                   published, okRegs, stored>>

\* The client closes the stream: the generator is cancelled where it is
\* suspended, in event_queue.get() or at the yield whose chunk is being sent.
disconnect(s) ==
    /\ subs[s].pc # "closed"
    /\ subs' = [subs EXCEPT ![s] = [pc |-> "closed", event |-> NoEvent]]
    /\ UNCHANGED <<users, event_queue, books, clock, issued, request, response,
                   published, received, okRegs, stored>>

----------------------------------------------------------------------------
(* The environment: time passes; the process is restarted *)

Tick ==
    /\ clock + ClockStep <= MaxClock
    /\ clock' = clock + ClockStep
    /\ UNCHANGED <<users, event_queue, books, issued, subs, request, response,
                   published, received, okRegs, stored>>

\* A restart reloads the module: users = {} and a fresh event_queue (main.py:45-46);
\* open connections are gone.  books.db and the tokens clients hold remain.
Restart ==
    /\ users' = <<>>
    /\ event_queue' = <<>>
    /\ subs' = [s \in Subscribers |-> [pc |-> "closed", event |-> NoEvent]]
    /\ okRegs' = [u \in Usernames |-> 0]
    /\ request' = NoRequest
    /\ response' = NoResponse
    /\ UNCHANGED <<books, clock, issued, published, received, stored>>

----------------------------------------------------------------------------
(* Specifications *)

QueryIds == {NoId, 0, -1} \cup BookIds
PageNumbers == {1, 2}
PageSizes == {1, 10}

Next ==
    \/ \E u \in Usernames, p \in Passwords : register(u, p)
    \/ \E u \in Usernames, p \in Passwords : login(u, p)
    \/ \E t \in Presentable, f \in Payloads : add_book(t, f)
    \/ \E t \in Presentable, i \in QueryIds, pg \in PageNumbers, sz \in PageSizes :
          get_books(t, i, pg, sz)
    \/ \E t \in Presentable, i \in QueryIds \ {NoId}, f \in Payloads : update_book(t, i, f)
    \/ \E t \in Presentable, i \in QueryIds \ {NoId} : delete_book(t, i)
    \/ \E s \in Subscribers, t \in Presentable : sse_get_events(s, t)
    \/ \E s \in Subscribers : event_generator_get(s)
    \/ \E s \in Subscribers : event_generator_yield(s)
    \/ \E s \in Subscribers : disconnect(s)
    \/ Tick
    \/ Restart

Spec == Init /\ [][Next]_vars

\* Registration, login and token checks over time and restarts; the protected
\* request is the list-all GET /books/.
NextAuth ==
    \/ \E u \in Usernames, p \in Passwords : register(u, p)
    \/ \E u \in Usernames, p \in Passwords : login(u, p)
    \/ \E t \in Presentable : get_books(t, NoId, 1, 10)
    \/ Tick
    \/ Restart

SpecAuth == Init /\ [][NextAuth]_vars

\* One user, one token, and the book routes.
NextBooks ==
    \/ register("alice", "pw1")
    \/ login("alice", "pw1")
    \/ \E t \in issued \cup {NoToken}, f \in Payloads : add_book(t, f)
    \/ \E t \in issued \cup {NoToken}, i \in QueryIds \ {NoId} : get_books(t, i, 1, 10)
    \/ \E t \in issued, pg \in PageNumbers, sz \in PageSizes : get_books(t, NoId, pg, sz)
    \/ \E t \in issued \cup {NoToken}, i \in BookIds \cup {0}, f \in Payloads :
          update_book(t, i, f)
    \/ \E t \in issued \cup {NoToken}, i \in BookIds \cup {0} : delete_book(t, i)

SpecBooks == Init /\ [][NextBooks]_vars

\* One user, publishers and the SSE subscribers.
NextEvents ==
    \/ register("alice", "pw1")
    \/ login("alice", "pw1")
    \/ \E t \in issued : add_book(t, Dune)
    \/ \E t \in issued, i \in BookIds : delete_book(t, i)
    \/ \E s \in Subscribers, t \in issued : sse_get_events(s, t)
    \/ \E s \in Subscribers : event_generator_get(s)
    \/ \E s \in Subscribers : event_generator_yield(s)
    \/ \E s \in Subscribers : disconnect(s)

SpecEvents == Init /\ [][NextEvents]_vars

\* The event loop runs every coroutine that is ready: a get that can return
\* and a yield that can be sent are not postponed for ever.
SpecEventsFair ==
    /\ Init
    /\ [][NextEvents]_vars
    /\ \A s \in Subscribers :
          /\ WF_vars(event_generator_get(s))
          /\ WF_vars(event_generator_yield(s))

\* One process lifetime: SpecAuth without the restart.
NextLifetime ==
    \/ \E u \in Usernames, p \in Passwords : register(u, p)
    \/ \E u \in Usernames, p \in Passwords : login(u, p)
    \/ \E t \in Presentable : get_books(t, NoId, 1, 10)
    \/ Tick

SpecLifetime == Init /\ [][NextLifetime]_vars

\* Every protected route, with good and bad tokens, as time passes.
NextGate ==
    \/ \E u \in Usernames : register(u, "pw1")
    \/ \E u \in Usernames : login(u, "pw1")
    \/ \E t \in Presentable : add_book(t, Dune)
    \/ \E t \in Presentable : get_books(t, 1, 1, 10)
    \/ \E t \in Presentable : update_book(t, 1, Emma)
    \/ \E t \in Presentable : delete_book(t, 1)
    \/ \E t \in Presentable : sse_get_events("s1", t)
    \/ event_generator_get("s1")
    \/ Tick

SpecGate == Init /\ [][NextGate]_vars

----------------------------------------------------------------------------
(* Properties *)

Secs == ACCESS_TOKEN_EXPIRE_MINUTES * 60

\* The last step was a protected request that presented a token.
Checked == request.op = "get_books" /\ request.token # NoToken

\* C1: a protected request whose token names a subject that is not a key of
\* `users` is answered 401, whatever its signature and expiry.
C1_UnknownSubjectRejected ==
    (request.op = "get_books" /\ request.token.sub \notin DOMAIN users)
        => response.status = 401

\* C2: a token is accepted if and only if its signature verifies, it has not
\* passed its expiry and its subject is in the user directory.
C2_AcceptedIff ==
    Checked =>
        (response.status = 200 <=>
            /\ request.token.sig = "SECRET_KEY"
            /\ request.at <= request.token.exp
            /\ request.token.sub \in DOMAIN users)

\* C3: in one process lifetime the first register of a username answers 200 and
\* every later register of it answers 400 "Username already registered" and
\* changes nothing, whatever the password.
C3_RegisterOnce ==
    [][(request'.op = "register" /\ clock' = clock) =>
          IF okRegs[request'.username] = 0
          THEN /\ response'.status = 200
               /\ okRegs'[request'.username] = 1
               /\ users'[request'.username] = request'.password
          ELSE /\ response' = HTTPException(400, "Username already registered")
               /\ UNCHANGED <<users, okRegs>>]_vars

C3_Witness ==
    /\ request.op = "register"
    /\ response.status = 400
    /\ users[request.username] # request.password
    /\ okRegs[request.username] = 1

\* C4: a token issued at T (with a subject get_current_user does not refuse) is
\* accepted at every T' with T <= T' < T + 30 min and refused as expired at
\* every T' >= T + 30 min, the instant T + 30 min included.
C4_ValidityWindow ==
    (Checked /\ request.token \in issued /\ request.token.sub # "") =>
        LET T == request.token.exp - Secs IN
        /\ (T <= request.at /\ request.at < T + Secs) => response.status = 200
        /\ request.at >= T + Secs =>
              response = HTTPException(401, "Token has expired")

\* C5: login with a registered (username, password) pair answers 200 with a
\* bearer token whose subject is the username.
C5_LoginSucceeds ==
    (/\ request.op = "login"
     /\ request.username \in DOMAIN users
     /\ users[request.username] = request.password)
        => /\ response.status = 200
           /\ response.token_type = "bearer"
           /\ response.access_token.sub = request.username

\* C6: every failing login, for an unknown username as for a wrong password,
\* gets one and the same response (401, "Incorrect username or password",
\* WWW-Authenticate: Bearer) and changes no state.
LoginFailure ==
    [NoResponse EXCEPT !.status = 401, !.detail = "Incorrect username or password",
                       !.www_authenticate = "Bearer"]

C6_UniformLoginFailure ==
    [][(/\ request'.op = "login"
        /\ clock' = clock
        /\ \/ request'.username \notin DOMAIN users
           \/ users[request'.username] # request'.password)
        => /\ response' = LoginFailure
           /\ UNCHANGED <<users, event_queue, books, issued, subs>>]_vars

C6_Witness ==
    /\ request.op = "login"
    /\ response = LoginFailure
    /\ request.username \in DOMAIN users
    /\ users[request.username] # ""
    /\ users[request.username] # request.password
    /\ \E u \in Usernames : u \notin DOMAIN users

\* C7: a successful add, update or delete appends exactly one notification
\* made of the action's words and the book's title; a successful find-by-id
\* appends exactly one "Book found: <title>"; a list-all with no id appends none.
Appended(text) ==
    event_queue' = Append(event_queue, [n |-> published + 1, text |-> text])

C7_OneNotification ==
    [][/\ (request'.op = "add_book" /\ response'.status = 200)
            => Appended("New book added: " \o request'.fields.title)
       /\ (request'.op = "update_book" /\ response'.status = 200)
            => Appended("Book updated: " \o request'.fields.title)
       /\ (request'.op = "delete_book" /\ response'.status = 200)
            => Appended("Book deleted: " \o books[request'.id].title)
       /\ (request'.op = "get_books" /\ response'.status = 200
             /\ request'.id \in DOMAIN books)
            => Appended("Book found: " \o books[request'.id].title)
       /\ (request'.op = "get_books" /\ request'.id = NoId)
            => event_queue' = event_queue]_vars

C7_Witness ==
    /\ request.op = "delete_book"
    /\ response.status = 200
    /\ Len(event_queue) = 3
    /\ event_queue[1].text = "New book added: Dune"
    /\ event_queue[2].text = "Book updated: Emma"
    /\ event_queue[3].text = "Book deleted: Emma"

\* C8: with an id supplied, whatever integer it is, GET /books/ answers 404 if
\* no book has that id and otherwise the one-item page with total = 1.
C8_IdMeansLookup ==
    (request.op = "get_books" /\ request.id # NoId /\ response.status # 401) =>
        IF request.id \notin DOMAIN books
        THEN response = BookNotFound
        ELSE /\ response.status = 200
             /\ response.items = <<BookSchema(request.id, books[request.id])>>
             /\ response.total = 1

\* C9: GET /books/ by id answers, for each id, the fields of the latest
\* successful create or update of that id with the id itself, and 404 for an
\* id that was deleted or never created.
C9_ReadAfterWrite ==
    (request.op = "get_books" /\ request.id # NoId /\ response.status # 401) =>
        IF request.id \in DOMAIN stored
        THEN /\ response.status = 200
             /\ response.items = <<BookSchema(request.id, stored[request.id])>>
        ELSE response = BookNotFound

\* C10: no message is handed to two SSE connections, nor twice to one.
Got(s) ==
    received[s] \o (IF subs[s].pc = "yield" THEN <<subs[s].event>> ELSE <<>>)

C10_AtMostOneReceiver ==
    \A s1, s2 \in Subscribers :
        \A i \in DOMAIN Got(s1), j \in DOMAIN Got(s2) :
            (s1 # s2 \/ i # j) => Got(s1)[i].n # Got(s2)[j].n

C10_Witness ==
    /\ \A s \in Subscribers : Len(received[s]) >= 1
    /\ \E s \in Subscribers : Len(received[s]) >= 2

\* C11: messages leave the queue in publish order: the queue holds them in
\* publish order, every message a connection was handed was published before
\* every message still queued, and what one connection was handed is in
\* publish order.
Ascending(q) == \A i, j \in DOMAIN q : i < j => q[i].n < q[j].n

C11_PublishOrder ==
    /\ Ascending(event_queue)
    /\ \A s \in Subscribers :
          /\ Ascending(Got(s))
          /\ \A i \in DOMAIN Got(s), j \in DOMAIN event_queue :
                Got(s)[i].n < event_queue[j].n

C11_Witness ==
    /\ \E s1, s2 \in Subscribers :
          /\ s1 # s2
          /\ received[s1] # <<>>
          /\ subs[s2].pc = "yield"
    /\ event_queue # <<>>

\* C12: whatever the point at which a connection closes, every message
\* published so far is still queued, held by an open connection that is about
\* to send it, or was sent on some connection.
Published == 1..published

C12_NoMessageLost ==
    \A n \in Published :
        \/ \E i \in DOMAIN event_queue : event_queue[i].n = n
        \/ \E s \in Subscribers : \E i \in DOMAIN Got(s) : Got(s)[i].n = n

\* C13: a request to a protected route whose token is missing, wrongly signed,
\* past its expiry or without a subject is answered 401 and changes neither
\* the books nor the event queue nor any SSE connection.
Protected == {"add_book", "get_books", "update_book", "delete_book", "sse_get_events"}

Refused(token, now) ==
    \/ token = NoToken
    \/ token.sig # "SECRET_KEY"
    \/ token.exp < now
    \/ token.sub = ""

C13_NoEffectWithoutAuth ==
    [][(/\ request'.op \in Protected
        /\ <<request, response>>' # <<request, response>>
        /\ Refused(request'.token, clock))
        => /\ response'.status = 401
           /\ UNCHANGED <<books, event_queue, published, subs, received>>]_vars

C13_Witness ==
    /\ request.op = "delete_book"
    /\ response = HTTPException(401, "Token has expired")
    /\ request.id \in DOMAIN books
    /\ event_queue # <<>>
    /\ \E s \in Subscribers : subs[s].pc = "get"

\* C14: publishing is never blocked by the queue: while the model's cap on the
\* number of publishes is not reached, every authorized add, update, delete
\* and find-by-id can run to its end, however long the queue is and with no
\* SSE connection open.
Valid == {t \in issued : get_current_user(t, clock).ok}

C14_PublishNeverBlocks ==
    published < MaxPublished =>
        \A t \in Valid :
            /\ insert_ids # {} => \A f \in Payloads : ENABLED add_book(t, f)
            /\ \A i \in DOMAIN books :
                  /\ \A f \in Payloads : ENABLED update_book(t, i, f)
                  /\ ENABLED delete_book(t, i)
                  /\ ENABLED get_books(t, i, 1, 10)

C14_Witness ==
    /\ Len(event_queue) >= 2
    /\ published < MaxPublished
    /\ \A s \in Subscribers : subs[s].pc = "closed"
    /\ Valid # {}
    /\ DOMAIN books # {}
    /\ insert_ids # {}

\* C15: within a process lifetime a registered username stays registered with
\* the password it was registered with, whatever register, login or protected
\* request follows.
C15_DirectoryAppendOnly ==
    [][\A u \in DOMAIN users : u \in DOMAIN users' /\ users'[u] = users[u]]_vars

C15_Witness ==
    /\ request.op = "register"
    /\ request.username = "alice"
    /\ request.password = "pw2"
    /\ response.status = 400
    /\ users["alice"] = "pw1"
    /\ issued # {}

\* C16: the rows of the table have pairwise different ids; add_book takes no
\* id from its payload and the new row gets an id no row had; update_book
\* leaves the set of ids, the id of the row it updates and the other rows as
\* they were.
Rows == query_all(DOMAIN books)

C16_IdsUniqueAndStable ==
    /\ [](\A i, j \in DOMAIN Rows : i # j => Rows[i].id # Rows[j].id)
    /\ [][/\ (request'.op = "add_book" /\ response'.status = 200) =>
               LET new == response'.items[1].id IN
               /\ "id" \notin DOMAIN request'.fields
               /\ new \notin DOMAIN books
               /\ DOMAIN books' = DOMAIN books \cup {new}
               /\ \A i \in DOMAIN books : books'[i] = books[i]
          /\ (request'.op = "update_book" /\ response'.status = 200) =>
               /\ DOMAIN books' = DOMAIN books
               /\ response'.items[1].id = request'.id
               /\ \A i \in DOMAIN books \ {request'.id} : books'[i] = books[i]]_vars

C16_Witness ==
    /\ request.op = "update_book"
    /\ response.status = 200
    /\ Cardinality(DOMAIN books) = 2
    /\ \E i, j \in DOMAIN books : i # j /\ books[i] = books[j]

\* C17: a get returns only from a non-empty queue, and then exactly the head,
\* which it removes; under fair scheduling no message stays queued for ever
\* while a connection stays open, and no connection waits in get for ever
\* while the queue is non-empty.
Queued(n) == \E i \in DOMAIN event_queue : event_queue[i].n = n

C17_GetNextDelivers ==
    /\ [][\A s \in Subscribers :
             (subs[s].pc = "get" /\ subs'[s].pc = "yield") =>
                 /\ event_queue # <<>>
                 /\ subs'[s].event = Head(event_queue)
                 /\ event_queue' = Tail(event_queue)]_vars
    /\ [](\A s \in Subscribers :
             (subs[s].pc = "get" /\ event_queue = <<>>) =>
                 ~ENABLED event_generator_get(s))
    /\ \A s \in Subscribers : \A n \in 1..MaxPublished :
          (Queued(n) /\ subs[s].pc # "closed")
              ~> (~Queued(n) \/ subs[s].pc = "closed")
    /\ \A s \in Subscribers :
          (subs[s].pc = "get" /\ event_queue # <<>>)
              ~> (subs[s].pc # "get" \/ event_queue = <<>>)

C17_Witness ==
    /\ \E s \in Subscribers : subs[s].pc = "get" /\ received[s] # <<>>
    /\ \E s \in Subscribers : subs[s].pc = "yield"
    /\ Len(event_queue) >= 1

\* C18: the step that publishes a mutation's notification is the step that
\* commits the mutation, and the notification goes to the tail of the queue:
\* no commit happens without its publish in the same step, no mutation notice
\* is published without its commit, so the notices are queued in commit order.
Mutations == {"add_book", "update_book", "delete_book"}

C18_PublishFollowsCommit ==
    [][/\ (request'.op = "add_book" /\ response'.status = 200) =>
             \E id \in DOMAIN books' \ DOMAIN books :
                /\ books'[id] = request'.fields
                /\ Appended("New book added: " \o books'[id].title)
       /\ (request'.op = "update_book" /\ response'.status = 200) =>
             /\ books'[request'.id] = request'.fields
             /\ Appended("Book updated: " \o books'[request'.id].title)
       /\ (request'.op = "delete_book" /\ response'.status = 200) =>
             /\ request'.id \in DOMAIN books
             /\ request'.id \notin DOMAIN books'
             /\ Appended("Book deleted: " \o books[request'.id].title)
       /\ books' # books =>
             /\ request'.op \in Mutations
             /\ response'.status = 200
             /\ Len(event_queue') = Len(event_queue) + 1
       /\ (event_queue' # event_queue /\ request'.op # "get_books") =>
             /\ request'.op \in Mutations
             /\ response'.status = 200]_vars

C18_Witness ==
    /\ request.op = "update_book"
    /\ response.status = 200
    /\ Len(event_queue) = 3
    /\ event_queue[1].text = "New book added: Dune"
    /\ event_queue[2].text = "New book added: Emma"
    /\ event_queue[3].text = "Book updated: Dune"
    /\ \A i \in DOMAIN books : books[i] = Dune

\* C19: update_book, delete_book or find-by-id get_books for an id that no
\* stored book has is answered 404 "Book not found" and changes nothing.
C19_NotFoundChangesNothing ==
    [][(/\ request'.op \in {"update_book", "delete_book", "get_books"}
        /\ request'.id # NoId
        /\ request'.id \notin DOMAIN books
        /\ response'.status # 401)
        => /\ response' = BookNotFound
           /\ UNCHANGED <<users, event_queue, books, issued, subs, published>>]_vars

====
